---- MODULE Spec2Model ----
(***************************************************************************)
(* socketit (src/socketit.js): the Channel protocol engine, the Client and  *)
(* the Server.                                                             *)
(*                                                                         *)
(* Two Channels, "A" and "B", wrap the two ends of one WebSocket           *)
(* connection.  Every action is one event-loop callback of Channel (or one *)
(* public method called by the application), taken atomically, as the      *)
(* single JavaScript thread runs it.  The ws library and the handlers of   *)
(* the route table are the environment.  The Client (its transports,       *)
(* reconnect timers and probes) and the Server (the transports it accepts, *)
(* its channel set and stop()) have specifications of their own.           *)
(***************************************************************************)
EXTENDS Integers, Sequences, FiniteSets, TLC

\* Bound of the model: the calls of request() and publish() the application
\* makes, plus the frames a foreign peer sends.
MaxOps == 2

Chan == {"A", "B"}
Peer(ch) == IF ch = "A" THEN "B" ELSE "A"

(***************************************************************************)
(* JavaScript values: <<kind, text>>, a text being a sequence of string    *)
(* parts (so that "the message contains the method name" can be stated).   *)
(***************************************************************************)
Undefined == <<"undefined", <<>>>>
Null == <<"null", <<>>>>
NaN == <<"number", <<"NaN">>>>
\* A value JSON.stringify throws a TypeError on.
BigInt == <<"bigint", <<"1n">>>>
SerializeText == <<"Do not know how to serialize a BigInt">>
Str(s) == <<"string", <<s>>>>
\* The object {message: text}.
Obj(text) == <<"object", text>>
\* An Error the promise of request() rejects with; text is its .message.
Err(text) == <<"Error", text>>
\* A text is falsy in JavaScript iff it is the empty string.
Falsy(text) == text = <<>> \/ text = <<"">>
\* String(v) as new Error(v) computes its message.
ToText(v) == IF v = Undefined THEN <<"">> ELSE v[2]

NotOpenText == <<"WebSocket is not open">>
TimeoutText == <<"Request timed out after ", "timeout", "ms">>
NotFoundText(method) == <<"Method '", method, "' not found">>
Contains(text, part) == \E i \in DOMAIN text : text[i] = part

VARIABLES
    readyState,       \* ws.readyState of each end
    listeners,        \* whether the Channel's listeners are attached to its ws
    events,           \* the lifecycle events each Channel has emitted, in order
    net,              \* frames in flight to each end, in order
    sent,             \* every frame each Channel has handed to ws.send, in order
    pendingRequests,  \* Channel.pendingRequests: id -> the call whose resolve/reject it holds
    calls,            \* every call of Channel.request made so far, and how it stands
    timers,           \* the calls whose setTimeout timer is armed
    jobs,             \* every inbound request/publish frame dispatched so far
    nextId,           \* the source of fresh uuids
    unhandled,        \* per Channel, the errors that escaped _onMessage (unhandled rejections)
    diag,             \* per Channel, the diagnostics written to console.error
    dropped,          \* per Channel, the acks of response frames that found no pending entry
    nops,             \* request() and publish() calls and foreign frames so far
    client,           \* the fields of one Client, and its timers
    sockets,          \* every WebSocket the Client has created, in order
    server,           \* the fields of one Server, and the transports it accepted
    options           \* the options the owner constructs its Channels with

vars == <<readyState, listeners, events, net, sent, pendingRequests, calls, timers,
          jobs, nextId, unhandled, diag, dropped, nops, client, sockets, server,
          options>>

\* The state of the two Channels, and the state of the Client and the Server
\* with the options they hand to every Channel.
channelVars == <<readyState, listeners, events, net, sent, pendingRequests, calls,
                 timers, jobs, nextId, unhandled, diag, dropped, nops>>
ownerVars == <<client, sockets, server, options>>

(***************************************************************************)
(* Map (pendingRequests)                                                   *)
(***************************************************************************)
EmptyMap == [x \in {} |-> 0]
MapSet(m, k, v) == [x \in DOMAIN m \cup {k} |-> IF x = k THEN v ELSE m[x]]
MapDelete(m, k) == [x \in DOMAIN m \ {k} |-> m[x]]
MapHas(m, k) == k \in DOMAIN m
\* A lookup that finds an entry whatever the key.
MapGet_Any(m, k) ==
    IF k \in DOMAIN m THEN m[k]
    ELSE IF DOMAIN m # {} THEN m[CHOOSE x \in DOMAIN m : TRUE] ELSE 0
\* Map.get: the value under the key; 0 stands for undefined, no call being 0.
MapGet(m, k) == IF k \in DOMAIN m THEN m[k] ELSE 0

(***************************************************************************)
(* Messages and the wire.  A frame is a text; it is modelled by what       *)
(* JSON.parse makes of it: "garbage" (not JSON), "jsonnull" (the JSON      *)
(* null) or "object".  A missing key reads as undefined: id/ack 0,         *)
(* method "", code 0, data Undefined.                                      *)
(***************************************************************************)
Message(type, id, ack, method, code, data) ==
    [k |-> "object", type |-> type, id |-> id, ack |-> ack, method |-> method,
     code |-> code, data |-> data]
RequestMsg(id, method, data) == Message("request", id, 0, method, 0, data)
PublishMsg(method, data) == Message("publish", 0, 0, method, 0, data)
ResponseMsg(ack, code, data) == Message("response", 0, ack, "", code, data)
Garbage == [Message("", 0, 0, "", 0, Undefined) EXCEPT !.k = "garbage"]
JsonNull == [Message("", 0, 0, "", 0, Undefined) EXCEPT !.k = "jsonnull"]

\* JSON.stringify then JSON.parse of a value: NaN becomes null; a key whose
\* value is undefined is dropped and reads back as undefined.
JSONValue(v) == IF v = NaN THEN Null ELSE v
JSONstringify(message) == [message EXCEPT !.data = JSONValue(@)]
\* Whether JSON.stringify returns for the value.
Serializable(v) == v[1] # "bigint"


(***************************************************************************)
(* Channel                                                                 *)
(***************************************************************************)
\* get isOnline(): this.ws.readyState === WebSocket.OPEN
isOnline(ch) == readyState[ch] = "OPEN"

\* ws.send(text): the frame travels to the other end unless that end is gone.
WsSend(n, ch, message) ==
    IF readyState[Peer(ch)] # "CLOSED"
    THEN [n EXCEPT ![Peer(ch)] = Append(@, JSONstringify(message))]
    ELSE n
Logged(s, ch, message) == [s EXCEPT ![ch] = Append(@, JSONstringify(message))]

\* A generator that hands out the token of the call before.
uuidv4_Reused == IF nextId > 1 THEN nextId - 1 ELSE nextId
\* uuidv4(): a fresh token on every call.
uuidv4 == nextId

\* A route table is a function from its keys to the handlers, a handler being
\* named by what it does: "pong", "echo", "fail" or "big".
\* { ping: async () => 'pong' }
BuiltinRoutes == [k \in {"ping"} |-> "pong"]
\* A spread that lets the first table win.
Spread_FirstWins(a, b) ==
    [k \in DOMAIN a \cup DOMAIN b |-> IF k \in DOMAIN a THEN a[k] ELSE b[k]]
\* { ...a, ...b }: a key of both tables gets the value of the later one.
Spread(a, b) ==
    [k \in DOMAIN a \cup DOMAIN b |-> IF k \in DOMAIN b THEN b[k] ELSE a[k]]
\* this.routes = { ping: async () => 'pong', ...this.options.routes }
Routes == Spread(BuiltinRoutes, options.routes)
\* The keys of the table, and the keys a property lookup on the object also
\* finds because every object literal inherits them from Object.prototype.
OwnRoutes == DOMAIN Routes
InheritedKeys == {"toString"}
\* const routeHandler = this.routes[method]; if (routeHandler) ...
RouteFound(method) == method \in OwnRoutes \cup InheritedKeys
\* await routeHandler(data, this): the handler's value, or the Error it throws.
routeHandler(method, data) ==
    LET handler == IF method \in OwnRoutes THEN Routes[method] ELSE "inherited"
    IN CASE handler = "pong" -> [ok |-> TRUE, value |-> Str("pong")]
         [] handler = "echo" -> [ok |-> TRUE, value |-> data]
         [] handler = "fail" -> [ok |-> FALSE, value |-> Err(ToText(data))]
         [] handler = "big" -> [ok |-> TRUE, value |-> BigInt]
         [] OTHER -> [ok |-> TRUE, value |-> Str("[object Undefined]")]

\* Answering whatever the type of the frame.
ShouldRespond_Always(type) == TRUE
\* if (message.type === 'request'): only a request is answered.
ShouldRespond(type) == type = "request"

\* resolve(v) / reject(e) of the promise of call c: the first one settles it.
Settle(cs, c, state, result, by, ack) ==
    [cs EXCEPT ![c] =
        IF cs[c].state = "pending"
        THEN [@ EXCEPT !.state = state, !.result = result, !.by = by, !.ack = ack,
                       !.nsettle = @ + 1]
        ELSE [@ EXCEPT !.nsettle = @ + 1]]

\* A request() that arms no timer.
SetTimeout_Never(ts, c) == ts
\* timer = setTimeout(...)
SetTimeout(ts, c) == ts \cup {c}
\* A finally that leaves the timer armed.
ClearTimeout_Never(ts, c) == ts
\* .finally(() => clearTimeout(timer)): runs in the microtask after the settlement.
ClearTimeout(ts, c) == ts \ {c}
\* A catch that leaves the entry behind.
SendFailedCleanup_Keep(m, id) == m
\* catch (error) { this.pendingRequests.delete(id); return reject(error); }
SendFailedCleanup(m, id) == MapDelete(m, id)
\* A timer callback that leaves the entry behind.
TimeoutCleanup_Keep(m, id) == m
\* the timer callback's this.pendingRequests.delete(id)
TimeoutCleanup(m, id) == MapDelete(m, id)
\* data.message || 'Error'
ErrorText(data) ==
    LET text == IF data[1] = "object" THEN data[2] ELSE <<>>
    IN IF Falsy(text) THEN <<"Error">> ELSE text

\* request(method, data, options)
Request(ch, method, data) ==
    /\ nops < MaxOps
    /\ nops' = nops + 1
    /\ LET id == uuidv4
           c == Len(calls) + 1
           registered == MapSet(pendingRequests[ch], id, c)
           message == RequestMsg(id, method, data)
           call == [ch |-> ch, id |-> id, method |-> method, data |-> data,
                    state |-> "pending", result |-> Undefined, by |-> "none",
                    ack |-> 0, nsettle |-> 0]
       IN /\ nextId' = nextId + 1
          /\ IF isOnline(ch)
             THEN /\ pendingRequests' = [pendingRequests EXCEPT ![ch] = registered]
                  /\ net' = WsSend(net, ch, message)
                  /\ sent' = Logged(sent, ch, message)
                  /\ timers' = SetTimeout(timers, c)
                  /\ calls' = Append(calls, call)
             ELSE /\ pendingRequests' =
                        [pendingRequests EXCEPT ![ch] = SendFailedCleanup(registered, id)]
                  /\ calls' = Append(calls, [call EXCEPT !.state = "rejected",
                                                         !.result = Err(NotOpenText),
                                                         !.by = "notopen",
                                                         !.nsettle = 1])
                  /\ UNCHANGED <<net, sent, timers>>
    /\ UNCHANGED <<readyState, listeners, events, jobs, diag, unhandled, dropped>>
    /\ UNCHANGED ownerVars

\* The callback of setTimeout in request(): the timeout of call c expires.
TimeoutFire(c) ==
    /\ c \in timers
    /\ timers' = timers \ {c}
    /\ pendingRequests' =
           [pendingRequests EXCEPT ![calls[c].ch] = TimeoutCleanup(@, calls[c].id)]
    /\ calls' = Settle(calls, c, "rejected", Err(TimeoutText), "timeout", 0)
    /\ UNCHANGED <<readyState, listeners, events, net, sent, jobs, nextId, unhandled,
                   diag, dropped, nops>>
    /\ UNCHANGED ownerVars

\* publish(method, data)
Publish(ch, method, data) ==
    /\ nops < MaxOps
    /\ nops' = nops + 1
    /\ IF isOnline(ch)
       THEN /\ net' = WsSend(net, ch, PublishMsg(method, data))
            /\ sent' = Logged(sent, ch, PublishMsg(method, data))
            /\ diag' = diag
       ELSE /\ diag' = [diag EXCEPT ![ch] = @ \cup {"Failed to publish message:"}]
            /\ UNCHANGED <<net, sent>>
    /\ UNCHANGED <<readyState, listeners, events, pendingRequests, calls, timers, jobs,
                   nextId, unhandled, dropped>>
    /\ UNCHANGED ownerVars

(***************************************************************************)
(* _onMessage(data): the ws 'message' event.  The function is async and    *)
(* its promise is dropped by the listener, so an error thrown in it ends   *)
(* as an unhandled rejection.                                              *)
(***************************************************************************)
Unhandled(u, ch, what) == [u EXCEPT ![ch] = @ \cup {what}]

\* message.type === 'response'
OnResponse(ch, message) ==
    LET ack == message.ack
        \* const pending = this.pendingRequests.get(ack); if (pending)
        c == MapGet(pendingRequests[ch], ack)
    IN IF c = 0
       THEN /\ dropped' = [dropped EXCEPT ![ch] = @ \cup {ack}]
            /\ UNCHANGED <<pendingRequests, calls, timers, unhandled>>
       ELSE /\ pendingRequests' = [pendingRequests EXCEPT ![ch] = MapDelete(@, ack)]
            /\ dropped' = dropped
            /\ IF message.code = 200
               THEN /\ calls' = Settle(calls, c, "resolved", message.data, "response", ack)
                    /\ timers' = ClearTimeout(timers, c)
                    /\ unhandled' = unhandled
               ELSE IF message.data \in {Undefined, Null}
               THEN \* data.message throws a TypeError: nothing settles the call
                    /\ unhandled' = Unhandled(unhandled, ch, "TypeError: data.message")
                    /\ UNCHANGED <<calls, timers>>
               ELSE /\ calls' = Settle(calls, c, "rejected", Err(ErrorText(message.data)),
                                       "response", ack)
                    /\ timers' = ClearTimeout(timers, c)
                    /\ unhandled' = unhandled

\* message.type === 'request' || message.type === 'publish', up to the await.
\* n is the net with the frame taken off it.
OnCall(ch, message, n) ==
    LET found == RouteFound(message.method)
        answer == ~found /\ ShouldRespond(message.type)
        reply == ResponseMsg(message.id, 404, Obj(NotFoundText(message.method)))
    IN /\ jobs' = Append(jobs, [ch |-> ch, type |-> message.type, id |-> message.id,
                                method |-> message.method, data |-> message.data,
                                invoked |-> found,
                                state |-> IF found THEN "running" ELSE "done",
                                online |-> isOnline(ch), ok |-> FALSE,
                                value |-> Undefined])
       /\ net' = IF answer /\ isOnline(ch) THEN WsSend(n, ch, reply) ELSE n
       /\ sent' = IF answer /\ isOnline(ch) THEN Logged(sent, ch, reply) ELSE sent
       /\ unhandled' = IF answer /\ ~isOnline(ch)
                       THEN Unhandled(unhandled, ch, "Error: WebSocket is not open")
                       ELSE unhandled

OnMessage(ch) ==
    /\ readyState[ch] # "CLOSED"
    /\ net[ch] # <<>>
    /\ LET frame == Head(net[ch])
           n == [net EXCEPT ![ch] = Tail(@)]
       IN IF ~listeners[ch]
          THEN \* removeAllListeners() ran: nobody hears the event
               /\ net' = n
               /\ UNCHANGED <<sent, pendingRequests, calls, timers, jobs, unhandled, diag,
                              dropped>>
          ELSE CASE frame.k = "garbage" ->
                      \* JSON.parse throws: console.error and return
                      /\ net' = n
                      /\ diag' = [diag EXCEPT ![ch] = @ \cup {"Failed to parse message:"}]
                      /\ UNCHANGED <<sent, pendingRequests, calls, timers, jobs, unhandled,
                                     dropped>>
                 [] frame.k = "jsonnull" ->
                      \* message is null: message.type throws a TypeError
                      /\ net' = n
                      /\ unhandled' = Unhandled(unhandled, ch, "TypeError: message.type")
                      /\ UNCHANGED <<sent, pendingRequests, calls, timers, jobs, diag,
                                     dropped>>
                 [] frame.k = "object" /\ frame.type = "response" ->
                      /\ net' = n
                      /\ OnResponse(ch, frame)
                      /\ UNCHANGED <<sent, jobs, diag>>
                 [] frame.k = "object" /\ frame.type \in {"request", "publish"} ->
                      /\ OnCall(ch, frame, n)
                      /\ UNCHANGED <<pendingRequests, calls, timers, diag, dropped>>
                 [] OTHER ->
                      /\ net' = n
                      /\ UNCHANGED <<sent, pendingRequests, calls, timers, jobs, unhandled,
                                     diag, dropped>>
    /\ UNCHANGED <<readyState, listeners, events, nextId, nops>>
    /\ UNCHANGED ownerVars

\* A _send that throws though it has sent the frame.
SendThrows_Always(online, v) == TRUE
\* _send(message) throws: the transport is not open, or JSON.stringify throws.
SendThrows(online, v) == ~online \/ ~Serializable(v)
\* _send(message) hands the frame to ws.send.
Sends(online, v) == online /\ Serializable(v)

\* A catch block that sends nothing.
Sent500_Never(caught, respond, online) == FALSE
\* catch (err) { if (message.type === 'request') this._send({... code: 500 ...}) }
Sent500(caught, respond, online) == caught /\ respond /\ online

\* _onMessage after the await: the handler of job j has returned or thrown.
HandlerReturn(j) ==
    /\ j \in 1..Len(jobs)
    /\ jobs[j].state = "running"
    /\ LET job == jobs[j]
           ch == job.ch
           out == routeHandler(job.method, job.data)
           respond == ShouldRespond(job.type)
           \* try: the handler threw, or _send of the 200 response threw
           sent200 == out.ok /\ respond /\ Sends(isOnline(ch), out.value)
           caught == ~out.ok \/ (respond /\ SendThrows(isOnline(ch), out.value))
           err == IF ~out.ok THEN out.value
                  ELSE IF ~isOnline(ch) THEN Err(NotOpenText) ELSE Err(SerializeText)
           \* catch: _send of the 500 response, which may throw in its turn
           sent500 == Sent500(caught, respond, isOnline(ch))
           escaped == caught /\ respond /\ ~isOnline(ch)
           reply200 == ResponseMsg(job.id, 200, out.value)
           reply500 == ResponseMsg(job.id, 500, Obj(err[2]))
           net200 == IF sent200 THEN WsSend(net, ch, reply200) ELSE net
           log200 == IF sent200 THEN Logged(sent, ch, reply200) ELSE sent
       IN /\ jobs' = [jobs EXCEPT ![j] = [@ EXCEPT !.state = "done",
                                                   !.online = isOnline(ch),
                                                   !.ok = out.ok,
                                                   !.value = out.value]]
          /\ net' = IF sent500 THEN WsSend(net200, ch, reply500) ELSE net200
          /\ sent' = IF sent500 THEN Logged(log200, ch, reply500) ELSE log200
          /\ unhandled' = IF escaped
                          THEN Unhandled(unhandled, ch, "Error: WebSocket is not open")
                          ELSE unhandled
    /\ UNCHANGED <<readyState, listeners, events, pendingRequests, calls, timers, nextId,
                   diag, dropped, nops>>
    /\ UNCHANGED ownerVars

(***************************************************************************)
(* Lifecycle: the ws 'error' and 'close' events, and close().              *)
(***************************************************************************)
\* An _onError that leaves the listeners attached.
OnError_KeepListeners(ch) ==
    /\ listeners' = listeners
    /\ events' = [events EXCEPT ![ch] = Append(@, "error")]

\* _onError(error).  (emit('error') throws when the owner of the Channel has
\* attached no 'error' listener to it; the owner is outside this model.)
OnError(ch) ==
    /\ listeners' = [listeners EXCEPT ![ch] = FALSE]
    /\ events' = [events EXCEPT ![ch] = Append(@, "error")]

\* _onClose(code, reason)
OnClose(ch) ==
    /\ listeners' = [listeners EXCEPT ![ch] = FALSE]
    /\ events' = [events EXCEPT ![ch] = Append(@, "disconnected")]

\* The transport of ch fails: ws emits 'error', and 'close' once the socket is down.
WsError(ch) ==
    /\ readyState[ch] = "OPEN"
    /\ readyState' = [readyState EXCEPT ![ch] = "CLOSING"]
    /\ IF listeners[ch] THEN OnError(ch) ELSE UNCHANGED <<listeners, events>>
    /\ UNCHANGED <<net, sent, pendingRequests, calls, timers, jobs, nextId, unhandled,
                   diag, dropped, nops>>
    /\ UNCHANGED ownerVars

\* The transport of ch is down: ws emits 'close'.
WsClose(ch) ==
    /\ readyState[ch] # "CLOSED"
    /\ readyState' = [readyState EXCEPT ![ch] = "CLOSED"]
    /\ net' = [net EXCEPT ![ch] = <<>>]
    /\ IF listeners[ch] THEN OnClose(ch) ELSE UNCHANGED <<listeners, events>>
    /\ UNCHANGED <<sent, pendingRequests, calls, timers, jobs, nextId, unhandled, diag,
                   dropped, nops>>
    /\ UNCHANGED ownerVars

\* close(): this.ws.close()
Close(ch) ==
    /\ readyState[ch] = "OPEN"
    /\ readyState' = [readyState EXCEPT ![ch] = "CLOSING"]
    /\ UNCHANGED <<listeners, events, net, sent, pendingRequests, calls, timers, jobs,
                   nextId, unhandled, diag, dropped, nops>>
    /\ UNCHANGED ownerVars

(***************************************************************************)
(* Frames from a peer that is no socketit Channel.                         *)
(***************************************************************************)
\* A response frame of the wire format that no handler produced: a duplicate,
\* or one with an ack the Channel never issued.
InjectResponse(ch, ack, code) ==
    /\ nops < MaxOps
    /\ readyState[ch] # "CLOSED"
    /\ nops' = nops + 1
    /\ net' = [net EXCEPT ![ch] =
                  Append(@, ResponseMsg(ack, code, IF code = 200 THEN Str("dup")
                                                    ELSE Obj(<<"dup">>)))]
    /\ UNCHANGED <<readyState, listeners, events, sent, pendingRequests, calls, timers,
                   jobs, nextId, unhandled, diag, dropped>>
    /\ UNCHANGED ownerVars

\* The frames that do not have the shape of a message.
Malformed(ack) == {Garbage, JsonNull, ResponseMsg(ack, 500, Undefined)}
IsMalformed(frame) ==
    \/ frame.k # "object"
    \/ frame.type = "response" /\ frame.code # 200 /\ frame.data[1] # "object"
InjectMalformed(ch, frame) ==
    /\ nops < MaxOps
    /\ readyState[ch] # "CLOSED"
    /\ nops' = nops + 1
    /\ net' = [net EXCEPT ![ch] = Append(@, frame)]
    /\ UNCHANGED <<readyState, listeners, events, sent, pendingRequests, calls, timers,
                   jobs, nextId, unhandled, diag, dropped>>
    /\ UNCHANGED ownerVars

(***************************************************************************)
(* Specifications                                                          *)
(***************************************************************************)
\* What the application calls request() and publish() with.
\* echo succeeds (its data is a value JSON cannot carry), fail throws an Error
\* with an empty message, reverse is no route, toString is no route either but
\* a key every object inherits.
Inputs ==
    {<<"echo", NaN>>, <<"fail", Str("")>>, <<"reverse", Str("a")>>,
     <<"toString", Undefined>>}
\* What it calls publish() with: a handler that succeeds, one that fails, none.
PublishInputs == {<<"echo", Str("a")>>, <<"fail", Str("boom")>>, <<"reverse", Str("a")>>}
\* The Channel whose application makes the calls; the other one serves them.
Callers == {"A"}

\* new Channel(ws, options) over an open ws, at both ends: isOnline holds in
\* _setupWebSocket, so 'connected' has been emitted.
InitChannels ==
    /\ readyState = [ch \in Chan |-> "OPEN"]
    /\ listeners = [ch \in Chan |-> TRUE]
    /\ events = [ch \in Chan |-> <<"connected">>]
    /\ net = [ch \in Chan |-> <<>>]
    /\ sent = [ch \in Chan |-> <<>>]
    /\ pendingRequests = [ch \in Chan |-> EmptyMap]
    /\ calls = <<>>
    /\ timers = {}
    /\ jobs = <<>>
    /\ nextId = 1
    /\ unhandled = [ch \in Chan |-> {}]
    /\ diag = [ch \in Chan |-> {}]
    /\ dropped = [ch \in Chan |-> {}]
    /\ nops = 0

\* No Client and no Server has been constructed.
NoClient == [ws |-> 0]
NoServer == [wss |-> "null"]
\* options.routes of the application: echo and fail, and no ping.
AppRoutes == [k \in {"echo", "fail"} |-> k]

\* The two Channels alone.
Init ==
    /\ InitChannels
    /\ client = NoClient
    /\ sockets = <<>>
    /\ server = NoServer
    /\ options = [routes |-> AppRoutes]

Next ==
    \/ \E ch \in Callers, inp \in Inputs : Request(ch, inp[1], inp[2])
    \/ \E ch \in Callers, inp \in PublishInputs : Publish(ch, inp[1], inp[2])
    \/ \E c \in 1..MaxOps : TimeoutFire(c)
    \/ \E ch \in Chan : OnMessage(ch)
    \/ \E j \in 1..MaxOps : HandlerReturn(j)
    \/ \E ch \in Chan : WsError(ch)
    \/ \E ch \in Chan : WsClose(ch)
    \/ \E ch \in Chan : Close(ch)

\* Two socketit Channels over a faithful transport.
Spec == Init /\ [][Next]_vars

\* The same, the event loop running every armed timer.
FairSpec == Spec /\ \A c \in 1..MaxOps : WF_vars(TimeoutFire(c))

\* The acks a foreign frame may carry: the ids issued so far, and one never issued.
ForgedAck == MaxOps + 1
Acks == 1..(nextId - 1) \cup {ForgedAck}

NextDup ==
    \/ Next
    \/ \E ch \in Callers, ack \in Acks, code \in {200, 500} : InjectResponse(ch, ack, code)

\* A peer that also sends response frames of its own making.
SpecDup == Init /\ [][NextDup]_vars

NextRaw ==
    \/ NextDup
    \/ \E ch \in Chan, ack \in Acks : \E frame \in Malformed(ack) :
           InjectMalformed(ch, frame)

\* A peer that sends anything.
SpecRaw == Init /\ [][NextRaw]_vars

(***************************************************************************)
(* Channels whose owner may supply a 'ping' route of its own.              *)
(***************************************************************************)
\* options.routes with no ping entry, with one that returns its data, and with
\* one that throws.
SuppliedTables ==
    {AppRoutes,
     Spread(AppRoutes, [k \in {"ping"} |-> "echo"]),
     Spread(AppRoutes, [k \in {"ping"} |-> "fail"])}
\* channel.request('ping'), and the probe's request('ping', null, ...)
PingInputs == {<<"ping", Undefined>>, <<"ping", Null>>}

InitPing ==
    /\ InitChannels
    /\ client = NoClient
    /\ sockets = <<>>
    /\ server = NoServer
    /\ \E t \in SuppliedTables : options = [routes |-> t]

NextPing ==
    \/ \E ch \in Callers, inp \in PingInputs : Request(ch, inp[1], inp[2])
    \/ \E c \in 1..MaxOps : TimeoutFire(c)
    \/ \E ch \in Chan : OnMessage(ch)
    \/ \E j \in 1..MaxOps : HandlerReturn(j)
    \/ \E ch \in Chan : WsError(ch)
    \/ \E ch \in Chan : WsClose(ch)
    \/ \E ch \in Chan : Close(ch)

\* Two Channels and the calls of request('ping').
SpecPing == InitPing /\ [][NextPing]_vars

(***************************************************************************)
(* Channels with a route whose result cannot be sent.                      *)
(***************************************************************************)
\* options.routes with a handler that returns a value JSON.stringify throws on.
BigRoutes == Spread(AppRoutes, [k \in {"big"} |-> "big"])
\* Requests for that route, for one that succeeds and for one that throws.
SendInputs == {<<"big", Null>>, <<"echo", Str("a")>>, <<"fail", Str("boom")>>}

InitSend ==
    /\ InitChannels
    /\ client = NoClient
    /\ sockets = <<>>
    /\ server = NoServer
    /\ options = [routes |-> BigRoutes]

NextSend ==
    \/ \E ch \in Callers, inp \in SendInputs : Request(ch, inp[1], inp[2])
    \/ \E c \in 1..MaxOps : TimeoutFire(c)
    \/ \E ch \in Chan : OnMessage(ch)
    \/ \E j \in 1..MaxOps : HandlerReturn(j)
    \/ \E ch \in Chan : WsError(ch)
    \/ \E ch \in Chan : WsClose(ch)
    \/ \E ch \in Chan : Close(ch)

\* Two Channels and the requests whose responses may fail to be sent.
SpecSend == InitSend /\ [][NextSend]_vars

(***************************************************************************)
(* Client.  sockets[w] is the w-th WebSocket the Client created: its       *)
(* readyState, whether the listeners of _connect (clientL) and those of    *)
(* the Channel built on it (chanL) are attached to it, and how often its   *)
(* 'close' event made the Client emit 'disconnected' (ndisc) and arm a     *)
(* reconnect timer (nsched).  A Channel is named by the socket it wraps;   *)
(* an interval by the socket whose 'open' started it.  The server the      *)
(* Client connects to is the environment.                                  *)
(***************************************************************************)
\* Bounds: the WebSockets one Client creates, and the probes it sends.
MaxConn == 3
MaxPings == 1

\* new WebSocket(url, ...), and the three ws.on(...) of _connect
NewSocket ==
    [state |-> "CONNECTING", clientL |-> TRUE, chanL |-> FALSE, ndisc |-> 0, nsched |-> 0]

\* ws.removeAllListeners(): the listeners of the Client and of the Channel alike.
removeAllListeners(ss, w) ==
    [ss EXCEPT ![w] = [@ EXCEPT !.clientL = FALSE, !.chanL = FALSE]]

\* ws.close(): starts the closing handshake (aborts the opening one); no-op otherwise.
SocketClose(ss, w) ==
    [ss EXCEPT ![w] = [@ EXCEPT !.state = IF @ \in {"CONNECTING", "OPEN"}
                                          THEN "CLOSING" ELSE @]]

\* A Client that reconnects after a manual close too.
ShouldReconnect_Always(c) == TRUE
\* if (!this._manualClose && this.options.autoReconnect)
ShouldReconnect(c) == ~c.manualClose /\ c.autoReconnect

\* _connect(): st is [client, sockets]
Connect(st) ==
    [client |-> [st.client EXCEPT !.ws = Len(st.sockets) + 1],
     sockets |-> Append(st.sockets, NewSocket)]

\* _startPing(), called in the 'open' listener of socket w
StartPing(c, w) ==
    [c EXCEPT !.armed = (@ \ {c.pingIntervalId}) \cup {w}, !.pingIntervalId = w]

\* _onDisconnected(), run by the 'close' event of socket w
OnDisconnected(st, w) ==
    LET c == st.client
        again == ShouldReconnect(c)
        ss == removeAllListeners(st.sockets, c.ws)
    IN [client |-> [c EXCEPT !.armed = @ \ {c.pingIntervalId},
                             !.pingIntervalId = 0,
                             !.reconnectTimers = IF again THEN @ + 1 ELSE @],
        sockets |-> [ss EXCEPT ![w] = [@ EXCEPT !.ndisc = @ + 1,
                                               !.nsched = IF again THEN @ + 1 ELSE @]]]

\* Channel._onClose of the Channel on socket w; its 'disconnected' event has one
\* listener, () => this._onDisconnected()
ChannelOnClose(st, w) ==
    OnDisconnected([st EXCEPT !.sockets = removeAllListeners(@, w)], w)

\* new Client(url, options): the constructor calls _connect()
ClientInit ==
    /\ InitChannels
    /\ \E auto \in BOOLEAN :
           client = [ws |-> 1, channel |-> 0, pingIntervalId |-> 0, armed |-> {},
                     manualClose |-> FALSE, autoReconnect |-> auto,
                     reconnectTimers |-> 0, closeCalled |-> FALSE, pings |-> <<>>]
    /\ sockets = <<NewSocket>>
    /\ server = NoServer
    /\ options = [routes |-> AppRoutes]

\* ws 'open' on socket w: the listener of _connect, if it is still attached
SocketOpen(w) ==
    /\ w \in DOMAIN sockets
    /\ sockets[w].state = "CONNECTING"
    /\ IF sockets[w].clientL
       THEN /\ client' = StartPing([client EXCEPT !.manualClose = FALSE, !.channel = w], w)
            /\ sockets' = [sockets EXCEPT ![w] = [@ EXCEPT !.state = "OPEN", !.chanL = TRUE]]
       ELSE /\ client' = client
            /\ sockets' = [sockets EXCEPT ![w] = [@ EXCEPT !.state = "OPEN"]]
    /\ UNCHANGED <<channelVars, server, options>>

\* ws 'error' on socket w: the Client's listener re-emits it; Channel._onError, if
\* a Channel is listening, removes every listener of the socket.
SocketError(w) ==
    /\ w \in DOMAIN sockets
    /\ sockets[w].state \in {"CONNECTING", "OPEN"}
    /\ sockets' = [sockets EXCEPT ![w] =
                      [@ EXCEPT !.state = "CLOSING",
                                !.clientL = IF sockets[w].chanL THEN FALSE ELSE @,
                                !.chanL = FALSE]]
    /\ UNCHANGED <<channelVars, client, server, options>>

\* ws 'close' on socket w.  emit() calls the listeners that were attached when
\* the event was emitted, in the order they were attached: the Client's, then the
\* Channel's.
SocketClosed(w) ==
    /\ w \in DOMAIN sockets
    /\ sockets[w].state \in {"OPEN", "CLOSING"}
    /\ LET st0 == [client |-> client,
                   sockets |-> [sockets EXCEPT ![w] = [@ EXCEPT !.state = "CLOSED"]]]
           st1 == IF sockets[w].clientL THEN OnDisconnected(st0, w) ELSE st0
           st2 == IF sockets[w].chanL THEN ChannelOnClose(st1, w) ELSE st1
       IN /\ client' = st2.client
          /\ sockets' = st2.sockets
    /\ UNCHANGED <<channelVars, server, options>>

\* The callback of setTimeout in _onDisconnected: () => this._connect()
ReconnectFire ==
    /\ client.reconnectTimers > 0
    /\ Len(sockets) < MaxConn
    /\ LET st == Connect([client |-> [client EXCEPT !.reconnectTimers = @ - 1],
                          sockets |-> sockets])
       IN /\ client' = st.client
          /\ sockets' = st.sockets
    /\ UNCHANGED <<channelVars, server, options>>

\* The callback of setInterval in _startPing, when the Channel is online:
\* this.channel.request('ping', null, {timeout}) leaves a call pending.
PingTick ==
    /\ client.armed # {}
    /\ Len(client.pings) < MaxPings
    /\ client.channel # 0
    /\ sockets[client.channel].state = "OPEN"
    /\ client' = [client EXCEPT !.pings = Append(@, [w |-> client.channel,
                                                     state |-> "pending",
                                                     closed |-> 0])]
    /\ UNCHANGED <<channelVars, sockets, server, options>>

\* The peer's response to probe p arrives and resolves it.
PingAnswered(p) ==
    /\ p \in DOMAIN client.pings
    /\ client.pings[p].state = "pending"
    /\ sockets[client.pings[p].w].state = "OPEN"
    /\ sockets[client.pings[p].w].chanL
    /\ client' = [client EXCEPT !.pings[p].state = "resolved"]
    /\ UNCHANGED <<channelVars, sockets, server, options>>

\* The timeout of probe p rejects it: .catch(() => this.ws.close()).  closed is
\* the socket the catch closed, if that socket was open.
PingTimedOut(p) ==
    /\ p \in DOMAIN client.pings
    /\ client.pings[p].state = "pending"
    /\ client' = [client EXCEPT !.pings[p] =
                     [@ EXCEPT !.state = "timedout",
                               !.closed = IF sockets[client.ws].state = "OPEN"
                                          THEN client.ws ELSE 0]]
    /\ sockets' = SocketClose(sockets, client.ws)
    /\ UNCHANGED <<channelVars, server, options>>

\* Client.close()
ClientClose ==
    /\ client' = [client EXCEPT !.manualClose = TRUE,
                                !.armed = @ \ {client.pingIntervalId},
                                !.closeCalled = TRUE]
    /\ sockets' = SocketClose(sockets, client.ws)
    /\ UNCHANGED <<channelVars, server, options>>

ClientNext ==
    \/ \E w \in 1..MaxConn : SocketOpen(w)
    \/ \E w \in 1..MaxConn : SocketError(w)
    \/ \E w \in 1..MaxConn : SocketClosed(w)
    \/ ReconnectFire
    \/ PingTick
    \/ \E p \in 1..MaxPings : PingAnswered(p)
    \/ \E p \in 1..MaxPings : PingTimedOut(p)
    \/ ClientClose

\* One Client and the server it connects to.
ClientSpec == ClientInit /\ [][ClientNext]_vars

\* The same, the event loop running every armed reconnect timer.
ClientFairSpec == ClientSpec /\ WF_vars(ReconnectFire)

(***************************************************************************)
(* Server.  server.accepted[i] is the i-th transport the acceptor handed   *)
(* to the 'connection' listener: its readyState and whether the listeners  *)
(* of the Channel built on it (chanL) are attached; server.channels holds  *)
(* the Channels (named by their transport) of this.channels.  wss is the   *)
(* frame-layer acceptor (WebSocket.Server), endpoint the listening         *)
(* http(s) server: "null", "open", "closing" or "closed".  stop is the     *)
(* promise of stop(); errors are the errors the close callbacks reported,  *)
(* in order.  guarded tells the stop() of lines 911-929 from the one of    *)
(* lines 280-298.                                                          *)
(***************************************************************************)
\* Bound: the transports one Server accepts.
MaxAccept == 2

\* new Server(options)
ServerInit ==
    /\ InitChannels
    /\ client = NoClient
    /\ sockets = <<>>
    /\ \E ext \in BOOLEAN, g \in BOOLEAN :
           server = [wss |-> "null", endpoint |-> "null", external |-> ext,
                     guarded |-> g, accepted |-> <<>>, channels |-> {},
                     stop |-> "none", stopError |-> "none", errors |-> <<>>]
    /\ options = [routes |-> AppRoutes]

\* start(): this.server = externalServer or a new one; this.wss = new WebSocket.Server.
\* The application starts the Server once, and before it stops it.
Start ==
    /\ server.wss = "null"
    /\ server.stop = "none"
    /\ server' = [server EXCEPT !.wss = "open", !.endpoint = "open"]
    /\ UNCHANGED <<channelVars, client, sockets, options>>

\* wss 'connection': new Channel(ws), this.channels.add(channel)
Accept ==
    /\ server.wss = "open"
    /\ Len(server.accepted) < MaxAccept
    /\ server' = [server EXCEPT
                     !.accepted = Append(@, [state |-> "OPEN", chanL |-> TRUE]),
                     !.channels = @ \cup {Len(server.accepted) + 1}]
    /\ UNCHANGED <<channelVars, client, sockets, options>>

\* ws 'error' on accepted transport i: Channel._onError removes the listeners
AcceptedError(i) ==
    /\ i \in DOMAIN server.accepted
    /\ server.accepted[i].state = "OPEN"
    /\ server' = [server EXCEPT !.accepted[i] = [state |-> "CLOSING", chanL |-> FALSE]]
    /\ UNCHANGED <<channelVars, client, sockets, options>>

\* channel.on('disconnected', () => this.channels.delete(channel))
ChannelsDelete(chs, i) == chs \ {i}

\* ws 'close' on accepted transport i: Channel._onClose, if it still listens,
\* emits 'disconnected'
AcceptedClosed(i) ==
    /\ i \in DOMAIN server.accepted
    /\ server.accepted[i].state \in {"OPEN", "CLOSING"}
    /\ server' = [server EXCEPT
                     !.accepted[i] = [state |-> "CLOSED", chanL |-> FALSE],
                     !.channels = IF server.accepted[i].chanL
                                  THEN ChannelsDelete(@, i) ELSE @]
    /\ UNCHANGED <<channelVars, client, sockets, options>>

\* stop(): if (this.wss) this.wss.close(cb) else resolve()
Stop ==
    /\ server.stop = "none"
    /\ server' = IF server.wss # "null"
                 THEN [server EXCEPT !.stop = "pending",
                                     !.wss = IF @ = "open" THEN "closing" ELSE @]
                 ELSE [server EXCEPT !.stop = "resolved"]
    /\ UNCHANGED <<channelVars, client, sockets, options>>

\* if (this.server) of line 285; if (this.server && !this.options.externalServer)
\* of line 916
ClosesEndpoint(srv) ==
    IF srv.guarded
    THEN srv.endpoint # "null" /\ ~srv.external
    ELSE srv.endpoint # "null"

\* The callback of this.wss.close: err is whether the acceptor reported an error
WssClosed(err) ==
    /\ server.stop = "pending"
    /\ server.wss = "closing"
    /\ server' =
           IF err
           THEN [server EXCEPT !.wss = "closed", !.stop = "rejected",
                               !.stopError = "wss", !.errors = Append(@, "wss")]
           ELSE IF ClosesEndpoint(server)
           THEN [server EXCEPT !.wss = "closed", !.endpoint = "closing"]
           ELSE [server EXCEPT !.wss = "closed", !.stop = "resolved"]
    /\ UNCHANGED <<channelVars, client, sockets, options>>

\* The callback of this.server.close
EndpointClosed(err) ==
    /\ server.stop = "pending"
    /\ server.endpoint = "closing"
    /\ server' =
           IF err
           THEN [server EXCEPT !.endpoint = "closed", !.stop = "rejected",
                               !.stopError = "endpoint",
                               !.errors = Append(@, "endpoint")]
           ELSE [server EXCEPT !.endpoint = "closed", !.stop = "resolved"]
    /\ UNCHANGED <<channelVars, client, sockets, options>>

ServerNext ==
    \/ Start
    \/ Accept
    \/ \E i \in 1..MaxAccept : AcceptedError(i)
    \/ \E i \in 1..MaxAccept : AcceptedClosed(i)
    \/ Stop
    \/ \E err \in BOOLEAN : WssClosed(err)
    \/ \E err \in BOOLEAN : EndpointClosed(err)

\* One Server and the transports it accepts.
ServerSpec == ServerInit /\ [][ServerNext]_vars

(***************************************************************************)
(* Properties                                                              *)
(***************************************************************************)
Calls == DOMAIN calls
Jobs == DOMAIN jobs
Pending(c) == calls[c].state = "pending"
HasEntry(c) == MapHas(pendingRequests[calls[c].ch], calls[c].id)
\* The response frames with ack = id that Channel ch has sent.
Responses(ch, id) ==
    {i \in DOMAIN sent[ch] : sent[ch][i].type = "response" /\ sent[ch][i].ack = id}

\* C1: a response frame with ack = i settles only the call whose id is i, every
\* entry of the pending table stands under the id of its own call, and no two
\* calls pending on one Channel share an id.
C1_RoutedById ==
    /\ \A c \in Calls : calls[c].by = "response" => calls[c].ack = calls[c].id
    /\ \A ch \in Chan : \A i \in DOMAIN pendingRequests[ch] :
           /\ pendingRequests[ch][i] \in Calls
           /\ calls[pendingRequests[ch][i]].id = i
           /\ calls[pendingRequests[ch][i]].ch = ch
    /\ \A c1, c2 \in Calls :
           (c1 # c2 /\ Pending(c1) /\ Pending(c2) /\ calls[c1].ch = calls[c2].ch)
               => calls[c1].id # calls[c2].id

\* Two calls were pending together and the response of the later one came first.
C1_Witness ==
    /\ Len(calls) = 2
    /\ calls[1].ch = calls[2].ch
    /\ Pending(1)
    /\ calls[2].by = "response"
    /\ calls[2].ack = 2

\* C2: every call of request() settles exactly once: resolve/reject is invoked at
\* most once per call, the event that settles the call is the one that removes
\* its entry (a call is pending exactly while its entry is in the table), the
\* timer of a settled call is no longer armed, and no response frame made
\* _onMessage throw.
C2_SettlesExactlyOnce ==
    \A c \in Calls :
        /\ calls[c].nsettle <= 1
        /\ Pending(c) <=> calls[c].nsettle = 0
        /\ Pending(c) <=> HasEntry(c)
        /\ ~Pending(c) => c \notin timers
        /\ "TypeError: data.message" \notin unhandled[calls[c].ch]

\* A call settled by a response, and a second response with the same ack was
\* delivered after it.
C2_Witness ==
    \E c \in Calls :
        /\ calls[c].by = "response"
        /\ calls[c].id \in dropped[calls[c].ch]

\* The call has been rejected by its timeout and has left the table.
TimedOut(c) ==
    /\ calls[c].by = "timeout"
    /\ calls[c].state = "rejected"
    /\ calls[c].result = Err(TimeoutText)
    /\ ~HasEntry(c)
    /\ c \notin timers

\* C3: a request sent on an open Channel eventually is settled by a response or
\* is rejected with the timeout error, and a call rejected by its timeout has left
\* the pending table.
C3_TimeoutRejects ==
    /\ [](\A c \in Calls : calls[c].by = "timeout" => TimedOut(c))
    /\ \A c \in 1..MaxOps :
           (c \in Calls /\ Pending(c))
               ~> (c \in Calls /\ (calls[c].by = "response" \/ TimedOut(c)))

\* A call timed out whose request the peer never answered.
C3_Witness ==
    \E c \in Calls :
        /\ TimedOut(c)
        /\ Responses(Peer(calls[c].ch), calls[c].id) = {}

\* C4 (as stated): every request frame whose handling is over has been answered
\* by exactly one response frame with its id as ack.
C4_Original ==
    \A j \in Jobs :
        (jobs[j].type = "request" /\ jobs[j].state = "done")
            => Cardinality(Responses(jobs[j].ch, jobs[j].id)) = 1

\* C4 (amended): a request frame is answered by exactly one response frame once
\* its handling is over if the transport was open at that moment, and by none
\* before that or if the transport was no longer open: never by more than one.
C4_OneResponseWhileOpen ==
    \A j \in Jobs :
        jobs[j].type = "request"
            => Cardinality(Responses(jobs[j].ch, jobs[j].id))
                   = IF jobs[j].state = "done" /\ jobs[j].online THEN 1 ELSE 0

\* A handler returned after the transport had stopped being open.
C4_Witness ==
    \E j \in Jobs :
        /\ jobs[j].type = "request"
        /\ jobs[j].invoked
        /\ jobs[j].state = "done"
        /\ ~jobs[j].online
        /\ Responses(jobs[j].ch, jobs[j].id) = {}

\* C5: request() on a Channel that is not open rejects at once, and leaves the
\* pending table, the frames sent and the timers as they were.
C5_NotOpenRejects ==
    [][\A ch \in Chan, inp \in Inputs :
          (~isOnline(ch) /\ Request(ch, inp[1], inp[2]))
              => /\ pendingRequests' = pendingRequests
                 /\ sent' = sent
                 /\ net' = net
                 /\ timers' = timers
                 /\ calls'[Len(calls')].state = "rejected"
                 /\ calls'[Len(calls')].result = Err(NotOpenText)
                 /\ \A c \in Calls : calls'[c] = calls[c]]_vars

\* A call was made on a Channel that was not open.
C5_Witness ==
    \E c \in Calls :
        /\ calls[c].by = "notopen"
        /\ calls[c].state = "rejected"
        /\ ~HasEntry(c)

\* The call on the other Channel that request frame j came from.
CallOf(j) ==
    {c \in Calls : calls[c].ch = Peer(jobs[j].ch) /\ calls[c].id = jobs[j].id}

\* C6 (as stated): a call settled by the response to its request rejects with the
\* failure text of the peer's handler as its message when the handler failed, and
\* resolves with the handler's value when it succeeded.
C6_Original ==
    \A j \in Jobs : \A c \in CallOf(j) :
        (jobs[j].type = "request" /\ jobs[j].invoked /\ jobs[j].state = "done"
         /\ calls[c].by = "response")
            => IF jobs[j].ok
               THEN calls[c].state = "resolved" /\ calls[c].result = jobs[j].value
               ELSE calls[c].state = "rejected" /\ calls[c].result[2] = jobs[j].value[2]

\* C7 (as stated): for a request whose method is no key of the peer's route
\* table the peer invokes no handler and answers with code 404 only, and the
\* call settled by that answer rejects with a message that contains the method.
C7_Original ==
    \A j \in Jobs :
        (jobs[j].type = "request" /\ jobs[j].method \notin OwnRoutes)
            => /\ ~jobs[j].invoked
               /\ \A i \in Responses(jobs[j].ch, jobs[j].id) : sent[jobs[j].ch][i].code = 404
               /\ \A c \in CallOf(j) :
                      calls[c].by = "response"
                          => /\ calls[c].state = "rejected"
                             /\ Contains(calls[c].result[2], jobs[j].method)

\* C8: publish() leaves the pending table, the calls and the timers of the sender
\* as they were, and a Channel sends response frames only for request frames it
\* received: each response carries the id of one of them, and none is sent for a
\* publish frame, whatever its handler did.
C8_PublishNoReply ==
    /\ [](\A ch \in Chan :
             /\ \A i \in DOMAIN sent[ch] :
                    sent[ch][i].type = "response"
                        => \E j \in Jobs : /\ jobs[j].ch = ch
                                           /\ jobs[j].type = "request"
                                           /\ jobs[j].id = sent[ch][i].ack
             /\ Cardinality({i \in DOMAIN sent[ch] : sent[ch][i].type = "response"})
                    <= Cardinality({j \in Jobs : jobs[j].ch = ch /\ jobs[j].type = "request"}))
    /\ [][\A ch \in Chan, inp \in PublishInputs :
             Publish(ch, inp[1], inp[2])
                 => UNCHANGED <<pendingRequests, calls, timers>>]_vars

\* Two publish frames were handled, one by a handler that returned and one by a
\* handler that threw, and the receiver has sent nothing.
C8_Witness ==
    \E j1, j2 \in Jobs :
        /\ jobs[j1].type = "publish" /\ jobs[j1].state = "done" /\ jobs[j1].ok
        /\ jobs[j2].type = "publish" /\ jobs[j2].state = "done" /\ jobs[j2].invoked
        /\ ~jobs[j2].ok
        /\ sent[jobs[j1].ch] = <<>>
        /\ pendingRequests[Peer(jobs[j1].ch)] = EmptyMap
        /\ timers = {}

\* C9 (as stated): the delivery of a frame that has not the shape of a message
\* leaves the pending table, the calls and the timers as they were and lets no
\* error escape.
C9_Original ==
    [][\A ch \in Chan :
          (/\ listeners[ch]
           /\ net[ch] # <<>>
           /\ IsMalformed(Head(net[ch]))
           /\ OnMessage(ch))
              => /\ pendingRequests' = pendingRequests
                 /\ calls' = calls
                 /\ timers' = timers
                 /\ unhandled' = unhandled]_vars

\* Whether event e is among those Channel ch has emitted.
Emitted(ch, e) == \E i \in DOMAIN events[ch] : events[ch][i] = e

\* C10 (as stated): a Channel that has emitted error has emitted disconnected
\* after it by the time its transport is down.
C10_Original ==
    \A ch \in Chan :
        (Emitted(ch, "error") /\ readyState[ch] = "CLOSED")
            => \E i, k \in DOMAIN events[ch] :
                   i < k /\ events[ch][i] = "error" /\ events[ch][k] = "disconnected"

\* C16 (as stated): when the handler of an inbound request returns or throws
\* while the transport is not open, no error escapes _onMessage and a diagnostic
\* is logged.
C16_Original ==
    [][\A j \in Jobs :
          (jobs[j].type = "request" /\ ~isOnline(jobs[j].ch) /\ HandlerReturn(j))
              => /\ unhandled' = unhandled
                 /\ diag'[jobs[j].ch] # diag[jobs[j].ch]]_vars

\* The request frames for 'ping' whose handling ended with the transport open.
PingJobs ==
    {j \in Jobs : /\ jobs[j].type = "request"
                  /\ jobs[j].method = "ping"
                  /\ jobs[j].state = "done"
                  /\ jobs[j].online}
\* The response frames Channel ch has sent with ack = id.
ResponseFrames(ch, id) == {sent[ch][i] : i \in Responses(ch, id)}

\* C20 (as stated): a request for 'ping' is answered with a success response,
\* which carries 'pong' when the supplied table has no 'ping' entry and the value
\* of the supplied handler when it has one.
C20_Original ==
    \A j \in PingJobs :
        /\ jobs[j].invoked
        /\ \A r \in ResponseFrames(jobs[j].ch, jobs[j].id) : r.code = 200
        /\ "ping" \notin DOMAIN options.routes => jobs[j].value = Str("pong")
        /\ "ping" \in DOMAIN options.routes => jobs[j].value # Str("pong")

\* C20 (amended): a request for 'ping' invokes the built-in handler when the
\* supplied table has no 'ping' entry, and is then answered with success and
\* 'pong'; it invokes the supplied handler when the table has one, and is then
\* answered with what that handler did: success and its value if it returned,
\* failure (code 500) and its message if it threw.
C20_PingRoute ==
    \A j \in PingJobs :
        /\ jobs[j].invoked
        /\ ResponseFrames(jobs[j].ch, jobs[j].id) =
               IF "ping" \notin DOMAIN options.routes
               THEN {ResponseMsg(jobs[j].id, 200, Str("pong"))}
               ELSE IF options.routes["ping"] = "echo"
               THEN {JSONstringify(ResponseMsg(jobs[j].id, 200, jobs[j].data))}
               ELSE {ResponseMsg(jobs[j].id, 500, Obj(ToText(jobs[j].data)))}

\* A request for 'ping' was answered with a failure by the supplied handler.
C20_Witness ==
    \E j \in PingJobs :
        /\ "ping" \in DOMAIN options.routes
        /\ ~jobs[j].ok
        /\ \E r \in ResponseFrames(jobs[j].ch, jobs[j].id) : r.code = 500

\* C21: the delivery of a response frame whose ack is not in the pending table
\* of the Channel leaves the pending tables, the calls and the timers as they
\* were, sends nothing, logs nothing and lets no error escape.
C21_UnknownAckDropped ==
    [][\A ch \in Chan :
          (/\ listeners[ch]
           /\ net[ch] # <<>>
           /\ Head(net[ch]).k = "object"
           /\ Head(net[ch]).type = "response"
           /\ ~MapHas(pendingRequests[ch], Head(net[ch]).ack)
           /\ OnMessage(ch))
              => /\ UNCHANGED <<pendingRequests, calls, timers, sent, unhandled, diag>>
                 /\ net' = [net EXCEPT ![ch] = Tail(@)]]_vars

\* A response came for a call that had timed out, and one with an ack no call
\* ever had.
C21_Witness ==
    \E ch \in Chan :
        /\ ForgedAck \in dropped[ch]
        /\ \E c \in Calls :
               /\ calls[c].ch = ch
               /\ calls[c].id \in dropped[ch]
               /\ calls[c].by = "timeout"

\* The transport of Channel ch is down.
Closed(ch) == readyState[ch] = "CLOSED"

\* C22: the close of a transport rejects no call and leaves the pending table and
\* the timers as they were; a call pending on a closed Channel is settled by
\* nothing but its timeout, which rejects it with the timeout error; every such
\* call is eventually rejected so, and the pending table of a closed Channel is
\* eventually empty.
C22_PendingSurviveClose ==
    /\ [][\A ch \in Chan : WsClose(ch) => UNCHANGED <<pendingRequests, calls, timers>>]_vars
    /\ [][\A c \in Calls :
              (Closed(calls[c].ch) /\ Pending(c) /\ calls'[c].state # "pending")
                  => /\ calls'[c].by = "timeout"
                     /\ calls'[c].result = Err(TimeoutText)]_vars
    /\ \A c \in 1..MaxOps :
           (c \in Calls /\ Pending(c) /\ Closed(calls[c].ch))
               ~> (c \in Calls /\ TimedOut(c))
    /\ \A ch \in Chan :
           Closed(ch) ~> (Closed(ch) /\ pendingRequests[ch] = EmptyMap)

\* The Channel has emitted disconnected for its closed transport, and a call is
\* still pending on it, its entry in the table and its timer armed.
C22_Witness ==
    \E c \in Calls :
        /\ Closed(calls[c].ch)
        /\ Emitted(calls[c].ch, "disconnected")
        /\ Pending(c)
        /\ HasEntry(c)
        /\ c \in timers

\* C24: the timer of a call settled through a response is not armed, and no
\* timeout callback runs for such a call: nothing settles it a second time.
C24_NoTimeoutAfterResponse ==
    /\ [](\A c \in Calls :
             calls[c].by = "response" => c \notin timers /\ calls[c].nsettle = 1)
    /\ [][\A c \in Calls : calls[c].by = "response" => ~TimeoutFire(c)]_vars

\* One call has been settled through its response and its timer is cancelled,
\* while the timer of another call, still pending, is armed.
C24_Witness ==
    \E c1, c2 \in Calls :
        /\ calls[c1].by = "response"
        /\ c1 \notin timers
        /\ Pending(c2)
        /\ c2 \in timers

\* The frames Channel ch has dispatched to its routes.
JobsOf(ch) == {j \in Jobs : jobs[j].ch = ch}
\* The calls of Channel ch that a response has settled.
AnsweredOf(ch) == {c \in Calls : calls[c].ch = ch /\ calls[c].by = "response"}

\* C25: a Channel that has emitted disconnected or error has no listener on its
\* transport, and a Channel without listeners gets none back, emits nothing
\* further, dispatches no further frame, settles no call through a response,
\* and neither logs nor raises anything for a frame.
C25_InertAfterCloseOrError ==
    /\ [](\A ch \in Chan :
             (Emitted(ch, "disconnected") \/ Emitted(ch, "error")) => ~listeners[ch])
    /\ [][\A ch \in Chan :
              ~listeners[ch]
                  => /\ ~listeners'[ch]
                     /\ events'[ch] = events[ch]
                     /\ JobsOf(ch)' = JobsOf(ch)
                     /\ AnsweredOf(ch)' = AnsweredOf(ch)
                     /\ dropped'[ch] = dropped[ch]
                     /\ \A e \in unhandled'[ch] \ unhandled[ch] :
                            e = "Error: WebSocket is not open"
                     /\ "Failed to parse message:" \in diag'[ch]
                            => "Failed to parse message:" \in diag[ch]]_vars

\* A Channel emitted error and then its transport went down: the close was not
\* handled, no disconnected followed.
C25_Witness ==
    \E ch \in Chan :
        /\ Emitted(ch, "error")
        /\ Closed(ch)
        /\ ~Emitted(ch, "disconnected")
        /\ ~listeners[ch]

\* C27: no two response frames a Channel has sent carry the same ack; a request
\* whose handler returned a value that could not be sent while the transport was
\* open is answered by the failure response alone, and one whose handling ended
\* with the transport not open by none.
C27_AtMostOneResponse ==
    /\ \A ch \in Chan : \A i, k \in DOMAIN sent[ch] :
           (i # k /\ sent[ch][i].type = "response" /\ sent[ch][k].type = "response")
               => sent[ch][i].ack # sent[ch][k].ack
    /\ \A j \in Jobs :
           (jobs[j].type = "request" /\ jobs[j].state = "done" /\ jobs[j].ok)
               => ResponseFrames(jobs[j].ch, jobs[j].id) =
                      IF ~jobs[j].online THEN {}
                      ELSE IF Serializable(jobs[j].value)
                      THEN {JSONstringify(ResponseMsg(jobs[j].id, 200, jobs[j].value))}
                      ELSE {ResponseMsg(jobs[j].id, 500, Obj(SerializeText))}

\* Both cases of a success response that could not be sent: the failure branch
\* sent the failure response for one request, and could send nothing for another.
C27_Witness ==
    \E j1, j2 \in Jobs :
        /\ jobs[j1].type = "request" /\ jobs[j1].state = "done" /\ jobs[j1].ok
        /\ jobs[j1].online /\ ~Serializable(jobs[j1].value)
        /\ \E r \in ResponseFrames(jobs[j1].ch, jobs[j1].id) : r.code = 500
        /\ jobs[j2].type = "request" /\ jobs[j2].state = "done" /\ jobs[j2].ok
        /\ ~jobs[j2].online
        /\ ResponseFrames(jobs[j2].ch, jobs[j2].id) = {}

\* C28 (as stated): between event-loop callbacks an id is in the pending table of
\* a Channel exactly while the call of request() that issued it is unsettled: every
\* entry belongs to a pending call, and every pending call has its entry.
C28_Original ==
    /\ \A ch \in Chan : \A i \in DOMAIN pendingRequests[ch] :
           /\ pendingRequests[ch][i] \in Calls
           /\ Pending(pendingRequests[ch][i])
    /\ \A c \in Calls : Pending(c) => HasEntry(c)

(***************************************************************************)
(* Properties of the Client                                                *)
(***************************************************************************)
Sockets == DOMAIN sockets
\* The transports of the Client that are connecting or open.
Live == {w \in Sockets : sockets[w].state \in {"CONNECTING", "OPEN"}}

\* C11 (as stated): when the transport of a Client with autoReconnect closes,
\* having opened or not, having reported an error or not, and close() has not
\* been called, the Client emits disconnected, no probe timer stays armed and a
\* reconnect timer is armed; and an armed reconnect timer eventually starts a
\* new connection attempt.
C11_Original ==
    /\ [][\A w \in Sockets :
             (client.autoReconnect /\ ~client.closeCalled /\ SocketClosed(w))
                 => /\ sockets'[w].ndisc >= 1
                    /\ client'.armed = {}
                    /\ client'.reconnectTimers > 0]_vars
    /\ \A n \in 1..(MaxConn - 1) :
           (client.reconnectTimers > 0 /\ Len(sockets) = n) ~> (Len(sockets) > n)

\* C12 (as stated): once close() has been called the Client creates no further
\* WebSocket.
C12_Original ==
    [][client.closeCalled => Len(sockets') = Len(sockets)]_vars

\* C13 (as stated): at most one transport of the Client is connecting or open, at
\* most one reconnect timer is armed, and none is armed while a transport is
\* connecting or open.
C13_Original ==
    Cardinality(Live) + client.reconnectTimers <= 1

\* C14 (as stated): once the transport that a timed-out probe closed is down, the
\* Client (autoReconnect on, close() never called) has emitted disconnected
\* exactly once for it and armed exactly one reconnect timer for it.
C14_Original ==
    \A p \in DOMAIN client.pings :
        LET w == client.pings[p].closed
        IN (/\ client.pings[p].state = "timedout"
            /\ w # 0
            /\ sockets[w].state = "CLOSED"
            /\ client.autoReconnect
            /\ ~client.closeCalled)
               => sockets[w].ndisc = 1 /\ sockets[w].nsched = 1

\* C17: a Client with autoReconnect false creates one WebSocket and arms no
\* reconnect timer, whatever happens to its transport.
C17_SingleAttempt ==
    ~client.autoReconnect
        => /\ Len(sockets) = 1
           /\ client.reconnectTimers = 0
           /\ \A w \in Sockets : sockets[w].nsched = 0

\* The transport of a Client without autoReconnect opened and went down, close()
\* never called, and the Client emitted disconnected.
C17_Witness ==
    /\ ~client.autoReconnect
    /\ ~client.closeCalled
    /\ client.channel = 1
    /\ sockets[1].state = "CLOSED"
    /\ sockets[1].ndisc >= 1

\* C18 (as stated): a call of close() after the first one leaves the Client and
\* its transports as they are.
C18_Original ==
    [][(client.closeCalled /\ ClientClose) => UNCHANGED <<client, sockets>>]_vars

\* C23 (as stated): the failure of a probe changes no transport but the one the
\* probe was issued on.
C23_Original ==
    [][\A p \in DOMAIN client.pings :
          PingTimedOut(p)
              => \A w \in Sockets : w # client.pings[p].w => sockets'[w] = sockets[w]]_vars

\* C26 (as stated): whenever Client.channel is set, it is the Channel of the
\* Client's current transport, and that transport has not closed.
C26_Original ==
    client.channel # 0
        => /\ client.channel = client.ws
           /\ sockets[client.channel].state # "CLOSED"

(***************************************************************************)
(* Properties of the Server                                                *)
(***************************************************************************)
Accepted == DOMAIN server.accepted

\* C15 (as stated): the Channels in the Server's set are exactly those of the
\* accepted transports that have not closed.
C15_Original ==
    server.channels = {i \in Accepted : server.accepted[i].state # "CLOSED"}

\* C19 (as stated): stop() has started closing the listening endpoint only if the
\* acceptor has closed, never closes an endpoint supplied from outside, has
\* resolved only if no close it started is still going on, and has rejected
\* only with the first error reported.
C19_Original ==
    /\ server.endpoint \in {"closing", "closed"} => server.wss = "closed"
    /\ server.external => server.endpoint \notin {"closing", "closed"}
    /\ server.stop = "resolved"
           => server.wss \in {"null", "closed"} /\ server.endpoint # "closing"
    /\ server.stop = "rejected" <=> server.errors # <<>>
    /\ server.stop = "rejected" => server.stopError = Head(server.errors)

====
